---- MODULE Spec2Model ----
(***************************************************************************)
(* Packed-header view over a raw byte buffer: the IPv4 header accessors of *)
(* packets/src/ipv4.rs.  A buffer is a sequence of bytes; source offsets   *)
(* are 0-based, so byte o of the source is element o+1 of the sequence.    *)
(***************************************************************************)
EXTENDS Integers, Sequences, FiniteSets, TLC

\* ------------------------------------------------------------------ bounds
\* Longest payload (bytes after the header) of an initial buffer.
MaxPayload == 1
\* Number of accessor calls made on one view.
MaxSteps == 2

\* ------------------------------------------------------- integer operators
\* Rust's & on unsigned integers, bit by bit.
RECURSIVE band(_, _)
band(a, b) ==
  IF a = 0 \/ b = 0 THEN 0
  ELSE (a % 2) * (b % 2) + 2 * band(a \div 2, b \div 2)

\* Rust's | on unsigned integers, bit by bit.
RECURSIVE bor(_, _)
bor(a, b) ==
  IF a = 0 THEN b
  ELSE IF b = 0 THEN a
  ELSE (IF a % 2 = 1 \/ b % 2 = 1 THEN 1 ELSE 0) + 2 * bor(a \div 2, b \div 2)

\* Rust's << on u8: the bits shifted past bit 7 are dropped.
shl_u8(a, n) == (a * (2 ^ n)) % 256

\* Rust's >> on an unsigned integer.
shr(a, n) == a \div (2 ^ n)

\* u16::swap_bytes
swap_bytes(x) == (x % 256) * 256 + (x \div 256)

\* u16::from_be on a target of the given endianness.
from_be(x, endian) == IF endian = "big" THEN x ELSE swap_bytes(x)

\* u16::to_be on a target of the given endianness.
to_be(x, endian) == IF endian = "big" THEN x ELSE swap_bytes(x)

\* ---------------------------------------------------------------- packet!
\* Variants of the minimum length: one byte short, one byte long.
MIN_LEN_short == 20 - 1

MIN_LEN_long == 20 + 1

MIN_LEN == 20

\* Ipv4Packet::new / MutIpv4Packet::new: a view exactly when the buffer holds
\* MIN_LEN bytes.
new(kind, data) == IF Len(data) >= MIN_LEN THEN kind ELSE "None"

\* data(): the whole region.
data(b) == b

\* header(): bytes [0, MIN_LEN).
header(b) == SubSeq(b, 1, MIN_LEN)

\* payload(): bytes [MIN_LEN, len).
payload(b) == SubSeq(b, MIN_LEN + 1, Len(b))

\* ------------------------------------------------- read_offset!/write_offset!
\* The result of a read: ok is FALSE when an index falls outside the buffer
\* (the access panics), idx is the set of byte indices touched.
InBounds(b, idx) == \A i \in idx : i >= 0 /\ i < Len(b)

Span(o, n) == o .. (o + n - 1)

read_offset_u8(b, o) ==
  [ok  |-> InBounds(b, {o}),
   val |-> IF InBounds(b, {o}) THEN b[o + 1] ELSE 0,
   idx |-> {o}]

\* The u16 stored at o and o+1, as the target reads it from memory.
read_offset_u16(b, o, endian) ==
  [ok  |-> InBounds(b, Span(o, 2)),
   val |-> IF InBounds(b, Span(o, 2))
           THEN IF endian = "big" THEN b[o + 1] * 256 + b[o + 2]
                                  ELSE b[o + 2] * 256 + b[o + 1]
           ELSE 0,
   idx |-> Span(o, 2)]

read_offset_4(b, o) ==
  [ok  |-> InBounds(b, Span(o, 4)),
   val |-> IF InBounds(b, Span(o, 4)) THEN SubSeq(b, o + 1, o + 4) ELSE <<0, 0, 0, 0>>,
   idx |-> Span(o, 4)]

\* The result of a write: the buffer after it (unchanged when it panics).
write_offset_u8(b, o, x) ==
  [ok  |-> InBounds(b, {o}),
   buf |-> IF InBounds(b, {o}) THEN [b EXCEPT ![o + 1] = x] ELSE b,
   idx |-> {o}]

\* Stores the u16 x at o and o+1 in the target's byte order.
write_offset_u16(b, o, x, endian) ==
  [ok  |-> InBounds(b, Span(o, 2)),
   buf |-> IF InBounds(b, Span(o, 2))
           THEN IF endian = "big"
                THEN [b EXCEPT ![o + 1] = x \div 256, ![o + 2] = x % 256]
                ELSE [b EXCEPT ![o + 1] = x % 256, ![o + 2] = x \div 256]
           ELSE b,
   idx |-> Span(o, 2)]

write_offset_4(b, o, x) ==
  [ok  |-> InBounds(b, Span(o, 4)),
   buf |-> IF InBounds(b, Span(o, 4))
           THEN [i \in 1 .. Len(b) |-> IF i - 1 \in Span(o, 4) THEN x[i - o] ELSE b[i]]
           ELSE b,
   idx |-> Span(o, 4)]

\* A value computed from a completed read.
Ret(r, v) == [ok |-> r.ok, val |-> v, idx |-> r.idx]

\* A write that follows a read of the same call: it happens only if the read
\* did not panic.
After(r, w, b) ==
  [ok  |-> r.ok /\ w.ok,
   buf |-> IF r.ok THEN w.buf ELSE b,
   idx |-> r.idx \cup w.idx]

\* ------------------------------------------------------------ external types
\* bitflags! Flags: u3 { RESERVED = 0b100, DF = 0b010, MF = 0b001 }
RESERVED == {"RESERVED"}
DF == {"DF"}
MF == {"MF"}

FlagBit(name) == IF name = "RESERVED" THEN 4 ELSE IF name = "DF" THEN 2 ELSE 1

\* Flags::from_bits_truncate
from_bits_truncate(x) == {n \in {"RESERVED", "DF", "MF"} : band(x, FlagBit(n)) # 0}

\* Flags::bits
bits(fl) ==
  (IF "RESERVED" \in fl THEN 4 ELSE 0) + (IF "DF" \in fl THEN 2 ELSE 0)
    + (IF "MF" \in fl THEN 1 ELSE 0)

\* Flags::contains
contains(fl, other) == other \subseteq fl

\* Protocol(u8) and Protocol::value
Protocol(x) == [value |-> x]

value(p) == p.value

\* Ipv4Addr::from([u8; 4]) and Ipv4Addr::octets
Ipv4Addr_from(o) == [a |-> o[1], b |-> o[2], c |-> o[3], d |-> o[4]]

octets(addr) == <<addr.a, addr.b, addr.c, addr.d>>

\* ---------------------------------------------------------------- getters!
version(b) ==
  LET r == read_offset_u8(b, 0) IN Ret(r, shr(r.val, 4))

header_length(b) ==
  LET r == read_offset_u8(b, 0) IN Ret(r, band(r.val, 15))

dscp(b) ==
  LET r == read_offset_u8(b, 1) IN Ret(r, shr(r.val, 2))

ecn(b) ==
  LET r == read_offset_u8(b, 1) IN Ret(r, band(r.val, 3))

total_length(b, endian) ==
  LET r == read_offset_u16(b, 2, endian) IN Ret(r, from_be(r.val, endian))

identification(b, endian) ==
  LET r == read_offset_u16(b, 4, endian) IN Ret(r, from_be(r.val, endian))

flags(b) ==
  LET r == read_offset_u8(b, 6) IN Ret(r, from_bits_truncate(shr(r.val, 5)))

dont_fragment(b) ==
  LET r == flags(b) IN Ret(r, contains(r.val, DF))

more_fragments(b) ==
  LET r == flags(b) IN Ret(r, contains(r.val, MF))

\* fragment_offset keeping only 12 bits (mask 0x0fff).
fragment_offset_mask12(b, endian) ==
  LET r == read_offset_u16(b, 6, endian) IN Ret(r, band(from_be(r.val, endian), 4095))

fragment_offset(b, endian) ==
  LET r == read_offset_u16(b, 6, endian) IN Ret(r, band(from_be(r.val, endian), 8191))

ttl(b) ==
  LET r == read_offset_u8(b, 8) IN Ret(r, r.val)

protocol(b) ==
  LET r == read_offset_u8(b, 9) IN Ret(r, Protocol(r.val))

header_checksum(b, endian) ==
  LET r == read_offset_u16(b, 10, endian) IN Ret(r, from_be(r.val, endian))

source(b) ==
  LET r == read_offset_4(b, 12) IN Ret(r, Ipv4Addr_from(r.val))

\* destination reading one byte past its field (offset 17).
destination_off17(b) ==
  LET r == read_offset_4(b, 17) IN Ret(r, Ipv4Addr_from(r.val))

destination(b) ==
  LET r == read_offset_4(b, 16) IN Ret(r, Ipv4Addr_from(r.val))

\* ---------------------------------------------------------------- setters!
set_version(b, v) ==
  LET r == read_offset_u8(b, 0)
      new_byte == bor(shl_u8(v, 4), band(r.val, 15))
  IN After(r, write_offset_u8(b, 0, new_byte), b)

\* set_header_length keeping the wrong nibble of the old byte (& 0x0f).
set_header_length_wrongmask(b, v) ==
  LET r == read_offset_u8(b, 0)
      new_byte == bor(band(r.val, 15), band(v, 15))
  IN After(r, write_offset_u8(b, 0, new_byte), b)

set_header_length(b, v) ==
  LET r == read_offset_u8(b, 0)
      new_byte == bor(band(r.val, 240), band(v, 15))
  IN After(r, write_offset_u8(b, 0, new_byte), b)

\* set_dscp that does not clear the old dscp bits.
set_dscp_noclear(b, v) ==
  LET r == read_offset_u8(b, 1)
      new_byte == bor(shl_u8(v, 2), r.val)
  IN After(r, write_offset_u8(b, 1, new_byte), b)

set_dscp(b, v) ==
  LET r == read_offset_u8(b, 1)
      new_byte == bor(shl_u8(v, 2), band(r.val, 3))
  IN After(r, write_offset_u8(b, 1, new_byte), b)

\* set_ecn that does not mask its argument.
set_ecn_nomask(b, v) ==
  LET r == read_offset_u8(b, 1)
      new_byte == bor(band(r.val, 252), v) % 256
  IN After(r, write_offset_u8(b, 1, new_byte), b)

set_ecn(b, v) ==
  LET r == read_offset_u8(b, 1)
      new_byte == bor(band(r.val, 252), band(v, 3))
  IN After(r, write_offset_u8(b, 1, new_byte), b)

\* set_total_length storing the value in the target's own byte order.
set_total_length_native(b, v, endian) ==
  write_offset_u16(b, 2, v, endian)

set_total_length(b, v, endian) ==
  write_offset_u16(b, 2, to_be(v, endian), endian)

set_identification(b, v, endian) ==
  write_offset_u16(b, 4, to_be(v, endian), endian)

\* set_flags overwriting the whole byte.
set_flags_clobber(b, fl) ==
  LET r == read_offset_u8(b, 6)
      new_byte == shl_u8(bits(fl), 5)
  IN After(r, write_offset_u8(b, 6, new_byte), b)

set_flags(b, fl) ==
  LET r == read_offset_u8(b, 6)
      new_byte == bor(shl_u8(bits(fl), 5), band(r.val, 31))
  IN After(r, write_offset_u8(b, 6, new_byte), b)

\* set_fragment_offset masking the word as read, before byte-order conversion.
set_fragment_offset_nofrombe(b, v, endian) ==
  LET r == read_offset_u16(b, 6, endian)
      new_byte == bor(band(r.val, 57344), band(v, 8191))
  IN After(r, write_offset_u16(b, 6, to_be(new_byte, endian), endian), b)

set_fragment_offset(b, v, endian) ==
  LET r == read_offset_u16(b, 6, endian)
      new_byte == bor(band(from_be(r.val, endian), 57344), band(v, 8191))
  IN After(r, write_offset_u16(b, 6, to_be(new_byte, endian), endian), b)

set_ttl(b, v) == write_offset_u8(b, 8, v)

set_protocol(b, p) == write_offset_u8(b, 9, value(p))

set_header_checksum(b, v, endian) ==
  write_offset_u16(b, 10, to_be(v, endian), endian)

set_source(b, addr) == write_offset_4(b, 12, octets(addr))

set_destination(b, addr) == write_offset_4(b, 16, octets(addr))

\* ------------------------------------------------------------------- state
VARIABLES
  buf,       \* the byte region the view overlays
  buf0,      \* the region as the caller supplied it
  endian,    \* byte order of the build target
  view,      \* "unbuilt", "None", "Ipv4Packet" or "MutIpv4Packet"
  steps,     \* accessor calls made so far
  last,      \* the most recent call: its name, argument, result, indices touched
  lastSet,   \* per field, the argument of the most recent setter call
  wasSet,    \* the fields some setter call has written
  panicked,  \* TRUE once a call failed with an out-of-range index
  repeat     \* TRUE when the latest call repeats the one before it

vars == <<buf, buf0, endian, view, steps, last, lastSet, wasSet, panicked, repeat>>

Fields ==
  {"version", "header_length", "dscp", "ecn", "total_length", "identification",
   "flags", "fragment_offset", "ttl", "protocol", "header_checksum", "source",
   "destination"}

\* Initial buffer contents: the alternating-bit fill of the getter test and a
\* ramp in which every header byte differs from its neighbours.
Patterns == {"alt", "ramp"}

PatternByte(p, i) == IF p = "alt" THEN 170 ELSE (i * 37 + 11) % 256

Buffer(p, n) == [i \in 1 .. n |-> PatternByte(p, i - 1)]

\* Every length up to the minimum, and the minimum plus the longest payload.
Lens == (0 .. MIN_LEN) \cup {MIN_LEN + MaxPayload}

\* Setter arguments: values inside and beyond each packed field's width.
U8Args == {2, 5, 244}

U16Args == {8111, 65471}

ByteArgs == {64, 255}

FlagArgs == {{}, DF, RESERVED \cup MF, RESERVED \cup DF \cup MF}

AddrArgs == {Ipv4Addr_from(<<192, 168, 15, 1>>), Ipv4Addr_from(<<168, 254, 99, 88>>)}

NoCall == [op |-> "none", arg |-> <<>>, ret |-> <<>>, idx |-> {}]

Init ==
  /\ buf \in {Buffer(p, n) : p \in Patterns, n \in Lens}
  /\ buf0 = buf
  /\ endian \in {"little", "big"}
  /\ view = "unbuilt"
  /\ steps = 0
  /\ last = NoCall
  /\ lastSet = [f \in Fields |-> <<>>]
  /\ wasSet = {}
  /\ panicked = FALSE
  /\ repeat = FALSE

\* ----------------------------------------------------------- construction
Construct(kind) ==
  /\ view = "unbuilt"
  /\ view' = new(kind, buf)
  /\ last' = [op |-> "new", arg |-> kind, ret |-> new(kind, buf), idx |-> {}]
  /\ UNCHANGED <<buf, buf0, endian, steps, lastSet, wasSet, panicked, repeat>>

Call_Ipv4Packet_new == Construct("Ipv4Packet")

Call_MutIpv4Packet_new == Construct("MutIpv4Packet")

\* A call on a live view; a panic ends the run.
CanCall == view \in {"Ipv4Packet", "MutIpv4Packet"} /\ ~panicked /\ steps < MaxSteps

\* A read-only call returning v.
Pure(name, v) ==
  /\ CanCall
  /\ last' = [op |-> name, arg |-> <<>>, ret |-> v, idx |-> {}]
  /\ steps' = steps + 1
  /\ repeat' = (last.op = name)
  /\ UNCHANGED <<buf, buf0, endian, view, lastSet, wasSet, panicked>>

Call_data == Pure("data", data(buf))

Call_header == Pure("header", header(buf))

Call_payload == Pure("payload", payload(buf))

\* ------------------------------------------------------------ getter calls
Get(name, r) ==
  /\ CanCall
  /\ last' = [op |-> name, arg |-> <<>>, ret |-> r.val, idx |-> r.idx]
  /\ panicked' = ~r.ok
  /\ steps' = steps + 1
  /\ repeat' = (last.op = name)
  /\ UNCHANGED <<buf, buf0, endian, view, lastSet, wasSet>>

Call_version == Get("version", version(buf))

Call_header_length == Get("header_length", header_length(buf))

Call_dscp == Get("dscp", dscp(buf))

Call_ecn == Get("ecn", ecn(buf))

Call_total_length == Get("total_length", total_length(buf, endian))

Call_identification == Get("identification", identification(buf, endian))

Call_flags == Get("flags", flags(buf))

Call_dont_fragment == Get("dont_fragment", dont_fragment(buf))

Call_more_fragments == Get("more_fragments", more_fragments(buf))

Call_fragment_offset == Get("fragment_offset", fragment_offset(buf, endian))

Call_ttl == Get("ttl", ttl(buf))

Call_protocol == Get("protocol", protocol(buf))

Call_header_checksum == Get("header_checksum", header_checksum(buf, endian))

Call_source == Get("source", source(buf))

Call_destination == Get("destination", destination(buf))

\* ------------------------------------------------------------ setter calls
Set(f, v, r) ==
  /\ CanCall
  /\ view = "MutIpv4Packet"
  /\ buf' = r.buf
  /\ last' = [op |-> "set", arg |-> <<f, v>>, ret |-> <<>>, idx |-> r.idx]
  /\ lastSet' = [lastSet EXCEPT ![f] = v]
  /\ wasSet' = wasSet \cup {f}
  /\ panicked' = ~r.ok
  /\ steps' = steps + 1
  /\ repeat' = (last.op = "set" /\ last.arg[1] = f /\ last.arg[2] = v)
  /\ UNCHANGED <<buf0, endian, view>>

Call_set_version == \E v \in U8Args : Set("version", v, set_version(buf, v))

Call_set_header_length ==
  \E v \in U8Args : Set("header_length", v, set_header_length(buf, v))

Call_set_dscp == \E v \in U8Args : Set("dscp", v, set_dscp(buf, v))

Call_set_ecn == \E v \in U8Args : Set("ecn", v, set_ecn(buf, v))

Call_set_total_length ==
  \E v \in U16Args : Set("total_length", v, set_total_length(buf, v, endian))

Call_set_identification ==
  \E v \in U16Args : Set("identification", v, set_identification(buf, v, endian))

Call_set_flags == \E v \in FlagArgs : Set("flags", v, set_flags(buf, v))

Call_set_fragment_offset ==
  \E v \in U16Args : Set("fragment_offset", v, set_fragment_offset(buf, v, endian))

Call_set_ttl == \E v \in ByteArgs : Set("ttl", v, set_ttl(buf, v))

Call_set_protocol ==
  \E v \in ByteArgs : Set("protocol", Protocol(v), set_protocol(buf, Protocol(v)))

Call_set_header_checksum ==
  \E v \in U16Args : Set("header_checksum", v, set_header_checksum(buf, v, endian))

Call_set_source == \E v \in AddrArgs : Set("source", v, set_source(buf, v))

Call_set_destination ==
  \E v \in AddrArgs : Set("destination", v, set_destination(buf, v))

Next ==
  \/ Call_Ipv4Packet_new
  \/ Call_MutIpv4Packet_new
  \/ Call_data
  \/ Call_header
  \/ Call_payload
  \/ Call_version
  \/ Call_header_length
  \/ Call_dscp
  \/ Call_ecn
  \/ Call_total_length
  \/ Call_identification
  \/ Call_flags
  \/ Call_dont_fragment
  \/ Call_more_fragments
  \/ Call_fragment_offset
  \/ Call_ttl
  \/ Call_protocol
  \/ Call_header_checksum
  \/ Call_source
  \/ Call_destination
  \/ Call_set_version
  \/ Call_set_header_length
  \/ Call_set_dscp
  \/ Call_set_ecn
  \/ Call_set_total_length
  \/ Call_set_identification
  \/ Call_set_flags
  \/ Call_set_fragment_offset
  \/ Call_set_ttl
  \/ Call_set_protocol
  \/ Call_set_header_checksum
  \/ Call_set_source
  \/ Call_set_destination

Spec == Init /\ [][Next]_vars

\* ------------------------------------------------------- layout (spec §6)
\* Bit width of each field that is narrower than or equal to its storage.
Width(f) ==
  CASE f = "version" -> 4
    [] f = "header_length" -> 4
    [] f = "dscp" -> 6
    [] f = "ecn" -> 2
    [] f = "fragment_offset" -> 13
    [] f = "ttl" -> 8
    [] OTHER -> 16

Numeric ==
  {"version", "header_length", "dscp", "ecn", "total_length", "identification",
   "fragment_offset", "ttl", "header_checksum"}

SubWidth == {"version", "header_length", "dscp", "ecn", "fragment_offset"}

\* The value a field holds after v was written to it.
Trunc(f, v) == IF f \in Numeric THEN v % (2 ^ Width(f)) ELSE v

Fits(f, v) == Trunc(f, v) = v

\* The header bytes a field owns entirely.
WholeBytes(f) ==
  CASE f = "total_length" -> {2, 3}
    [] f = "identification" -> {4, 5}
    [] f = "fragment_offset" -> {7}
    [] f = "ttl" -> {8}
    [] f = "protocol" -> {9}
    [] f = "header_checksum" -> {10, 11}
    [] f = "source" -> 12 .. 15
    [] f = "destination" -> 16 .. 19
    [] OTHER -> {}

\* The part of the byte x at index i that lies outside field f.
Outside(f, i, x) ==
  CASE i \in WholeBytes(f) -> 0
    [] f = "version" /\ i = 0 -> x % 16
    [] f = "header_length" /\ i = 0 -> x \div 16
    [] f = "dscp" /\ i = 1 -> x % 4
    [] f = "ecn" /\ i = 1 -> x \div 4
    [] f = "flags" /\ i = 6 -> x % 32
    [] f = "fragment_offset" /\ i = 6 -> x \div 32
    [] OTHER -> x

\* Every bit of b2 outside field f equals the same bit of b.
SameOutside(f, b, b2) ==
  /\ Len(b2) = Len(b)
  /\ \A i \in 0 .. (Len(b) - 1) : Outside(f, i, b2[i + 1]) = Outside(f, i, b[i + 1])

\* The getter of field f applied to buffer b.
GetVal(f, b, e) ==
  CASE f = "version" -> version(b).val
    [] f = "header_length" -> header_length(b).val
    [] f = "dscp" -> dscp(b).val
    [] f = "ecn" -> ecn(b).val
    [] f = "total_length" -> total_length(b, e).val
    [] f = "identification" -> identification(b, e).val
    [] f = "flags" -> flags(b).val
    [] f = "dont_fragment" -> dont_fragment(b).val
    [] f = "more_fragments" -> more_fragments(b).val
    [] f = "fragment_offset" -> fragment_offset(b, e).val
    [] f = "ttl" -> ttl(b).val
    [] f = "protocol" -> protocol(b).val
    [] f = "header_checksum" -> header_checksum(b, e).val
    [] f = "source" -> source(b).val
    [] f = "destination" -> destination(b).val

Live == view \in {"Ipv4Packet", "MutIpv4Packet"}

Getters == Fields \cup {"dont_fragment", "more_fragments"}

\* The value of each field as the layout table places it in the header bytes.
Stored(f, b) ==
  CASE f = "version" -> b[1] \div 16
    [] f = "header_length" -> b[1] % 16
    [] f = "dscp" -> b[2] \div 4
    [] f = "ecn" -> b[2] % 4
    [] f = "total_length" -> 256 * b[3] + b[4]
    [] f = "identification" -> 256 * b[5] + b[6]
    [] f = "flags" ->
         (IF b[7] \div 128 = 1 THEN {"RESERVED"} ELSE {})
           \cup (IF (b[7] \div 64) % 2 = 1 THEN {"DF"} ELSE {})
           \cup (IF (b[7] \div 32) % 2 = 1 THEN {"MF"} ELSE {})
    [] f = "dont_fragment" -> (b[7] \div 64) % 2 = 1
    [] f = "more_fragments" -> (b[7] \div 32) % 2 = 1
    [] f = "fragment_offset" -> (256 * b[7] + b[8]) % 8192
    [] f = "ttl" -> b[9]
    [] f = "protocol" -> [value |-> b[10]]
    [] f = "header_checksum" -> 256 * b[11] + b[12]
    [] f = "source" -> [a |-> b[13], b |-> b[14], c |-> b[15], d |-> b[16]]
    [] f = "destination" -> [a |-> b[17], b |-> b[18], c |-> b[19], d |-> b[20]]

\* This step is a setter call.
SetStep == last'.op = "set" /\ steps' = steps + 1

\* ------------------------------------------------------------------ claims
\* C1: Ipv4Packet::new(b) and MutIpv4Packet::new(b) return None when
\* len(b) < 20 and a view of the requested kind when len(b) >= 20; a short
\* buffer is the only way construction fails.
C1_NewNoneIffShort ==
  /\ view # "unbuilt" => ((view = "None") <=> (Len(buf) < 20))
  /\ last.op = "new" =>
       /\ last.ret = (IF Len(buf) < 20 THEN "None" ELSE last.arg)
       /\ view = last.ret

C1_Witness == view = "None" /\ Len(buf) = 19 /\ last.arg = "MutIpv4Packet"

\* C2: on a view over b, data() is b, header() is the first 20 bytes of b and
\* payload() is b from index 20 to the end (empty when len(b) = 20).
C2_Segments ==
  /\ last.op = "data" => last.ret = buf
  /\ last.op = "header" =>
       /\ Len(last.ret) = 20
       /\ \A i \in 1 .. 20 : last.ret[i] = buf[i]
  /\ last.op = "payload" =>
       /\ Len(last.ret) = Len(buf) - 20
       /\ \A i \in 1 .. Len(last.ret) : last.ret[i] = buf[20 + i]
       /\ Len(buf) = 20 => last.ret = <<>>

C2_Witness == last.op = "payload" /\ Len(buf) = 21 /\ last.ret = <<buf[21]>>

\* C3: for each of the 13 settable fields f and each v that fits f's width,
\* set_f(v) followed by get_f() on the same buffer returns v.
C3_RoundTrip ==
  [][(/\ last.op = "set"
      /\ steps' = steps + 1
      /\ last'.op = last.arg[1]
      /\ Fits(last.arg[1], last.arg[2]))
       => (~panicked' /\ last'.ret = last.arg[2])]_vars

C3_Witness ==
  /\ steps = 2
  /\ wasSet = {"dscp"}
  /\ lastSet["dscp"] = 5
  /\ last.op = "dscp"
  /\ last.ret = 5
  /\ buf # buf0

\* C4: a setter changes no bit outside its own field: every other getter's
\* result and the payload are unchanged, set_flags keeps the low 13 bits of the
\* word at bytes 6-7, set_fragment_offset keeps the top 3 bits of byte 6 and
\* set_source changes only bytes 12-15.
C4_Frame ==
  [][SetStep =>
       LET f == last'.arg[1] IN
         /\ SameOutside(f, buf, buf')
         /\ \A g \in Getters \ {f} :
              (f = "flags" /\ g \in {"dont_fragment", "more_fragments"})
                \/ GetVal(g, buf', endian) = GetVal(g, buf, endian)
         /\ payload(buf') = payload(buf)
         /\ f = "flags" =>
              (256 * buf'[7] + buf'[8]) % 8192 = (256 * buf[7] + buf[8]) % 8192
         /\ f = "fragment_offset" => buf'[7] \div 32 = buf[7] \div 32
         /\ f = "source" =>
              \A i \in (1 .. Len(buf)) \ (13 .. 16) : buf'[i] = buf[i]]_vars

C4_Witness ==
  /\ last.op = "set"
  /\ last.arg[1] = "flags"
  /\ last.arg[2] = {"DF"}
  /\ Stored("flags", buf0) = {"RESERVED", "MF"}
  /\ Stored("flags", buf) = {"DF"}
  /\ steps = 1
  /\ Len(buf) = 21

\* C5: for a packed field f (version, header_length, dscp, ecn,
\* fragment_offset) and an argument v wider than f, set_f(v) stores
\* v mod 2^width in f's bits, get_f() then returns v mod 2^width, and no
\* neighbouring field changes.
C5_Truncation ==
  [][/\ (SetStep /\ last'.arg[1] \in SubWidth /\ ~Fits(last'.arg[1], last'.arg[2]))
          => LET f == last'.arg[1]
                 v == last'.arg[2]
             IN /\ Stored(f, buf') = v % (2 ^ Width(f))
                /\ \A g \in Fields \ {f} : Stored(g, buf') = Stored(g, buf)
     /\ (/\ last.op = "set"
         /\ steps' = steps + 1
         /\ last.arg[1] \in SubWidth
         /\ last'.op = last.arg[1])
          => last'.ret = last.arg[2] % (2 ^ Width(last.arg[1]))]_vars

C5_Witness ==
  /\ steps = 2
  /\ wasSet = {"ecn"}
  /\ lastSet["ecn"] = 244
  /\ last.op = "ecn"
  /\ last.ret = 0
  /\ Stored("dscp", buf) = Stored("dscp", buf0)
  /\ Stored("ecn", buf0) # 0

\* C6: every getter returns the value the layout table gives for the header
\* bytes it is called on.
C6_ReadDecoding ==
  (last.op \in Getters /\ ~panicked) => last.ret = Stored(last.op, buf)

C6_Witness ==
  /\ last.op = "fragment_offset"
  /\ last.ret = 2730
  /\ \A i \in 1 .. 20 : buf[i] = 170
  /\ Stored("flags", buf) = {"RESERVED", "MF"}

\* C7: set_total_length(v), set_identification(v) and set_header_checksum(v)
\* leave byte o equal to v div 256 and byte o+1 equal to v mod 256 (o = 2, 4,
\* 10), whatever the buffer held before.
C7_BigEndianWrite ==
  (last.op = "set" /\ last.arg[1] \in {"total_length", "identification", "header_checksum"})
    => LET o == CASE last.arg[1] = "total_length" -> 2
                  [] last.arg[1] = "identification" -> 4
                  [] last.arg[1] = "header_checksum" -> 10
           v == last.arg[2]
       IN buf[o + 1] = v \div 256 /\ buf[o + 2] = v % 256

C7_Witness ==
  /\ last.op = "set"
  /\ last.arg[1] = "total_length"
  /\ last.arg[2] = 65471
  /\ buf[3] = 255
  /\ buf[4] = 191
  /\ endian = "little"
  /\ steps = 2

\* C8: on a constructed view no getter or setter fails, and every byte index
\* an accessor touches lies in 0..19, inside the buffer.
C8_Totality ==
  /\ ~panicked
  /\ Live => Len(buf) >= 20
  /\ \A i \in last.idx : i \in 0 .. 19 /\ i < Len(buf)
  /\ (steps > 0) => (Live /\ last.op \in Getters \cup {"set", "data", "header", "payload"})

C8_Witness ==
  /\ last.op = "destination"
  /\ last.idx = 16 .. 19
  /\ Len(buf) = 20
  /\ ~panicked

\* C9: a setter call repeated with the same argument leaves the buffer as the
\* first call left it; a getter leaves the buffer unchanged and returns the
\* same value when called twice in a row.
C9_Idempotence ==
  [][/\ (SetStep /\ repeat') => buf' = buf
     /\ (last'.op \in Getters /\ steps' = steps + 1) => buf' = buf
     /\ (last'.op \in Getters /\ steps' = steps + 1 /\ repeat')
          => last'.ret = last.ret]_vars

C9_Witness ==
  /\ repeat
  /\ last.op = "set"
  /\ last.arg[1] = "fragment_offset"
  /\ last.arg[2] = 65471
  /\ buf # buf0
  /\ endian = "little"

\* C10: after any sequence of setter calls each field's getter returns the
\* latest value set for it modulo 2^width, or its initial value if never set;
\* the buffer length and the bytes from index 20 on never change.
C10_LastWriteWins ==
  Live =>
    /\ \A f \in Fields :
         GetVal(f, buf, endian) =
           (IF f \in wasSet THEN Trunc(f, lastSet[f]) ELSE GetVal(f, buf0, endian))
    /\ Len(buf) = Len(buf0)
    /\ \A i \in 21 .. Len(buf) : buf[i] = buf0[i]

C10_Witness ==
  /\ wasSet = {"flags", "fragment_offset"}
  /\ last.op = "set"
  /\ last.arg[1] = "flags"
  /\ lastSet["fragment_offset"] = 65471
  /\ Len(buf) = 21
  /\ steps = 2

====
